---- MODULE Spec2Model ----
(***************************************************************************)
(* Residency state machine of vtkm::cont::ArrayHandle                      *)
(* (src/vtkm/cont/ArrayHandle.h).                                          *)
(*                                                                         *)
(* The state is the InternalStruct block of one handle.  The host Storage  *)
(* and the device execution manager are collaborators whose code is not in *)
(* ArrayHandle.h; they are modelled from their documented contract as      *)
(* plain copying containers (a Storage is its element sequence, a manager  *)
(* is the device it is bound to plus its element sequence).                *)
(***************************************************************************)
EXTENDS Integers, Sequences, FiniteSets

\* ---------------------------------------------------------------- bounds
MaxLen == 2
MaxHandles == 2

\* Element values.  The handle only copies elements and never inspects them,
\* so two values are enough to tell any two contents apart.
Values == {1, 2}
Devices == {"D1", "D2"}
Arrays == UNION {[1..k -> Values] : k \in 0..MaxLen}
ArraysOfLen(n) == [1..n -> Values]
ShrinkArgs == (-1)..(MaxLen + 1)

\* ------------------------------------------------- collaborators (contract)
\* boost::scoped_ptr holding no manager.
NULL == [dev |-> "NULL", data |-> <<>>]

\* new ArrayHandleExecutionManager<T, StorageTag, DeviceAdapterTag>
NewManager(d) == [dev |-> d, data |-> <<>>]

IsDeviceAdapter(m, d) == m.dev = d

\* ExecutionArray->LoadDataForInput(portal or storage): host-to-device copy.
LoadDataForInput(m, a) == [m EXCEPT !.data = a]

\* ExecutionArray->LoadDataForInPlace(storage): host-to-device copy.
LoadDataForInPlace(m, a) == [m EXCEPT !.data = a]

\* ExecutionArray->AllocateArrayForOutput(storage, n): a fresh device array
\* of n elements whose content g is whatever the allocation holds.
AllocateArrayForOutput(m, g) == [m EXCEPT !.data = g]

\* ExecutionArray->RetrieveOutputData(storage): device-to-host copy; the
\* value is the new content of the storage.
RetrieveOutputData(m) == m.data

\* ExecutionArray->ReleaseResources()
ManagerReleaseResources(m) == [m EXCEPT !.data = <<>>]

\* ExecutionArray->Shrink(n) only truncates: n must be a length not exceeding
\* the current one.
ManagerCanShrink(m, n) == 0 <= n /\ n <= Len(m.data)

\* ExecutionArray->Shrink(n), n within the current length.
ManagerShrink(m, n) == [m EXCEPT !.data = SubSeq(m.data, 1, n)]

\* ControlArray.Shrink(n) only truncates: n must be a length not exceeding
\* the current one.
StorageCanShrink(a, n) == 0 <= n /\ n <= Len(a)

\* ControlArray.Shrink(n), n within the current length.
StorageShrink(a, n) == SubSeq(a, 1, n)

\* ControlArray.ReleaseResources()
StorageReleaseResources(a) == <<>>

\* -------------------------------------------------------- result plumbing
\* Internal helpers yield the new state block, the fault met, if any:
\*   "null"          a call through the empty scoped_ptr,
\*   "assert"        a failed VTKM_ASSERT_CONT of ArrayHandle.h,
\*   "precondition"  a Storage or manager call outside its contract,
\* and whether a device-to-host copy (RetrieveOutputData) was made:
\*   "none", "valid" (ExecutionArrayValid held when it was made) or "invalid".
Ok(s) == [s |-> s, fault |-> "none", pull |-> "none"]
Fault(s, k) == [s |-> s, fault |-> k, pull |-> "none"]
Pulled(s, p) == [s |-> s, fault |-> "none", pull |-> p]

\* Public operations yield the new state block, how the call ended, the
\* content seen through the returned portal, whether a host-to-device copy
\* was made, and the device-to-host copy made by a helper they called.
Out(s, result, ret, copied) ==
  [s |-> s, result |-> result, ret |-> ret, copied |-> copied,
   pull |-> "none"]

Pulling(o, p) == [o EXCEPT !.pull = p]

Errors == {"NoData", "ReadOnly", "GrowNotAllowed"}
Crashes == {"AssertFail", "PreconditionFail", "BoostAssertAbort", "Segfault"}

\* A call through an empty scoped_ptr is undefined: BOOST_ASSERT aborts, or
\* the virtual call through the null pointer traps.
Outcomes(result) ==
  IF result = "null" THEN {"BoostAssertAbort", "Segfault"}
  ELSE IF result = "assert" THEN {"AssertFail"}
  ELSE IF result = "precondition" THEN {"PreconditionFail"}
  ELSE {result}

\* ------------------------------------------------------------ state block
\* Internals    the InternalStruct shared by the copies of the handle
\* last         the most recent call and how it ended
\* constructed  the constructor used, and the host data it was given for as
\*              long as only const reads (ReadOps) have been called since
\* everValid    some validity flag has been true at some point
\* onlyReads    only const reads have been called since construction
\* useCount     the number of ArrayHandle objects whose Internals pointer
\*              refers to the state block (the shared_ptr use count)
\* blockDeleted the InternalStruct has been deleted
VARIABLES Internals, last, constructed, everValid, onlyReads, useCount,
          blockDeleted

vars ==
  <<Internals, last, constructed, everValid, onlyReads, useCount,
    blockDeleted>>

AnyValid(s) ==
  s.UserPortalValid \/ s.ControlArrayValid \/ s.ExecutionArrayValid

\* ArrayHandle()
DefaultConstructed ==
  [UserPortal |-> <<>>, UserPortalValid |-> FALSE,
   ControlArray |-> <<>>, ControlArrayValid |-> FALSE,
   ExecutionArray |-> NULL, ExecutionArrayValid |-> FALSE]

\* ArrayHandle(const PortalConstControl& userData)
FromUserPortal(u) ==
  [UserPortal |-> u, UserPortalValid |-> TRUE,
   ControlArray |-> <<>>, ControlArrayValid |-> FALSE,
   ExecutionArray |-> NULL, ExecutionArrayValid |-> FALSE]

\* ArrayHandle(const StorageType &storage)
FromStorage(c) ==
  [UserPortal |-> <<>>, UserPortalValid |-> FALSE,
   ControlArray |-> c, ControlArrayValid |-> TRUE,
   ExecutionArray |-> NULL, ExecutionArrayValid |-> FALSE]

\* ------------------------------------------------------- internal helpers
\* Variant: only the control array's flag is tested before the copy-out.
SyncControlArray_IgnoreUser(s) ==
  IF ~s.ControlArrayValid
  THEN IF s.ExecutionArray = NULL
       THEN Fault(s, "null")
       ELSE Pulled([s EXCEPT
                     !.ControlArray = RetrieveOutputData(s.ExecutionArray),
                     !.ControlArrayValid = TRUE],
                   IF s.ExecutionArrayValid THEN "valid" ELSE "invalid")
  ELSE Ok(s)

SyncControlArray(s) ==
  IF ~s.UserPortalValid /\ ~s.ControlArrayValid
  THEN IF s.ExecutionArray = NULL
       THEN Fault(s, "null")
       ELSE Pulled([s EXCEPT
                     !.ControlArray = RetrieveOutputData(s.ExecutionArray),
                     !.ControlArrayValid = TRUE],
                   IF s.ExecutionArrayValid THEN "valid" ELSE "invalid")
  ELSE IF s.UserPortalValid /\ s.ControlArrayValid
       THEN Fault(s, "assert")
       ELSE Ok(s)

\* Variant: a manager of another device is discarded without synchronizing
\* the control array first.
PrepareForDevice_DiscardFirst(s, d) ==
  IF s.ExecutionArray # NULL /\ IsDeviceAdapter(s.ExecutionArray, d)
  THEN Ok(s)
  ELSE Ok([s EXCEPT !.ExecutionArray = NewManager(d),
                    !.ExecutionArrayValid = FALSE])

PrepareForDevice(s, d) ==
  IF s.ExecutionArray # NULL /\ IsDeviceAdapter(s.ExecutionArray, d)
  THEN Ok(s)
  ELSE LET y == IF s.ExecutionArray # NULL THEN SyncControlArray(s) ELSE Ok(s)
           b == IF s.ExecutionArray # NULL
                THEN [y.s EXCEPT !.ExecutionArray = NULL,
                                 !.ExecutionArrayValid = FALSE]
                ELSE s
       IN IF y.fault # "none" THEN y
          ELSE IF b.ExecutionArray # NULL \/ b.ExecutionArrayValid
          THEN Fault(b, "assert")
          ELSE Pulled([b EXCEPT !.ExecutionArray = NewManager(d)], y.pull)

\* ------------------------------------------------------ public operations
GetNumberOfValues(s) ==
  IF s.UserPortalValid THEN Len(s.UserPortal)
  ELSE IF s.ControlArrayValid THEN Len(s.ControlArray)
  ELSE IF s.ExecutionArrayValid THEN Len(s.ExecutionArray.data)
  ELSE 0

\* Variant: the manager itself is deleted and the flag is left as it was.
ReleaseResourcesExecution_DeleteManager(s) ==
  IF s.ExecutionArrayValid
  THEN IF s.ExecutionArray = NULL
       THEN Fault(s, "null")
       ELSE Ok([s EXCEPT !.ExecutionArray = NULL])
  ELSE Ok(s)

ReleaseResourcesExecution(s) ==
  IF s.ExecutionArrayValid
  THEN IF s.ExecutionArray = NULL
       THEN Fault(s, "null")
       ELSE Ok([s EXCEPT
                 !.ExecutionArray = ManagerReleaseResources(s.ExecutionArray),
                 !.ExecutionArrayValid = FALSE])
  ELSE Ok(s)

\* Variant: the control array is not synchronized first.
GetPortalControl_NoSync(s) ==
  IF s.UserPortalValid THEN Out(s, "ReadOnly", <<>>, FALSE)
  ELSE IF s.ControlArrayValid
  THEN LET r == ReleaseResourcesExecution(s) IN
       IF r.fault # "none" THEN Out(r.s, r.fault, <<>>, FALSE)
       ELSE Out(r.s, "ok", r.s.ControlArray, FALSE)
  ELSE Out(s, "NoData", <<>>, FALSE)

\* Variant: the execution resources are released before the portal is chosen.
GetPortalControl_ReleaseFirst(s) ==
  LET r == ReleaseResourcesExecution(s)
      y == SyncControlArray(s)
  IN IF y.fault # "none" THEN Out(y.s, y.fault, <<>>, FALSE)
     ELSE IF r.fault # "none" THEN Out(r.s, r.fault, <<>>, FALSE)
     ELSE IF y.s.UserPortalValid THEN Out(r.s, "ReadOnly", <<>>, FALSE)
     ELSE IF y.s.ControlArrayValid
     THEN Out([y.s EXCEPT !.ExecutionArray = r.s.ExecutionArray,
                          !.ExecutionArrayValid = FALSE],
              "ok", y.s.ControlArray, FALSE)
     ELSE Out(r.s, "NoData", <<>>, FALSE)

\* Variant: the execution copy is kept when the writable portal is handed out.
GetPortalControl_KeepExecution(s) ==
  LET y == SyncControlArray(s) IN
  IF y.fault # "none" THEN Out(y.s, y.fault, <<>>, FALSE)
  ELSE IF y.s.UserPortalValid THEN Out(y.s, "ReadOnly", <<>>, FALSE)
  ELSE IF y.s.ControlArrayValid THEN Out(y.s, "ok", y.s.ControlArray, FALSE)
  ELSE Out(y.s, "NoData", <<>>, FALSE)

GetPortalControl(s) ==
  LET y == SyncControlArray(s) IN
  Pulling(
    IF y.fault # "none" THEN Out(y.s, y.fault, <<>>, FALSE)
    ELSE IF y.s.UserPortalValid THEN Out(y.s, "ReadOnly", <<>>, FALSE)
    ELSE IF y.s.ControlArrayValid
    THEN LET r == ReleaseResourcesExecution(y.s) IN
         IF r.fault # "none" THEN Out(r.s, r.fault, <<>>, FALSE)
         ELSE Out(r.s, "ok", r.s.ControlArray, FALSE)
    ELSE Out(y.s, "NoData", <<>>, FALSE),
    y.pull)

\* Variant: the control array is consulted before the user portal.
GetPortalConstControl_ControlFirst(s) ==
  LET y == SyncControlArray(s) IN
  IF y.fault # "none" THEN Out(y.s, y.fault, <<>>, FALSE)
  ELSE IF y.s.ControlArrayValid \/ y.s.UserPortalValid
  THEN Out(y.s, "ok", y.s.ControlArray, FALSE)
  ELSE Out(y.s, "NoData", <<>>, FALSE)

\* Variant: the execution copy is dropped once the host has the data.
GetPortalConstControl_ReleaseExecution(s) ==
  LET y == SyncControlArray(s)
      r == ReleaseResourcesExecution(y.s)
  IN Pulling(
       IF y.fault # "none" THEN Out(y.s, y.fault, <<>>, FALSE)
       ELSE IF y.s.UserPortalValid THEN Out(y.s, "ok", y.s.UserPortal, FALSE)
       ELSE IF y.s.ControlArrayValid
       THEN IF r.fault # "none" THEN Out(r.s, r.fault, <<>>, FALSE)
            ELSE Out(r.s, "ok", r.s.ControlArray, FALSE)
       ELSE Out(y.s, "NoData", <<>>, FALSE),
       y.pull)

GetPortalConstControl(s) ==
  LET y == SyncControlArray(s) IN
  Pulling(
    IF y.fault # "none" THEN Out(y.s, y.fault, <<>>, FALSE)
    ELSE IF y.s.UserPortalValid THEN Out(y.s, "ok", y.s.UserPortal, FALSE)
    ELSE IF y.s.ControlArrayValid THEN Out(y.s, "ok", y.s.ControlArray, FALSE)
    ELSE Out(y.s, "NoData", <<>>, FALSE),
    y.pull)

\* Variant: the execution array is truncated before the read-only check.
Shrink_TruncateFirst(s, n) ==
  LET orig == GetNumberOfValues(s)
      e == IF s.ExecutionArrayValid /\ ManagerCanShrink(s.ExecutionArray, n)
           THEN [s EXCEPT !.ExecutionArray = ManagerShrink(s.ExecutionArray, n)]
           ELSE s
      c == IF e.ControlArrayValid /\ StorageCanShrink(e.ControlArray, n)
           THEN [e EXCEPT !.ControlArray = StorageShrink(e.ControlArray, n)]
           ELSE e
  IN IF n < orig
     THEN IF s.UserPortalValid THEN Out(e, "ReadOnly", <<>>, FALSE)
          ELSE IF GetNumberOfValues(c) # n THEN Out(c, "assert", <<>>, FALSE)
          ELSE Out(c, "ok", <<>>, FALSE)
     ELSE IF n = orig
     THEN Out(s, "ok", <<>>, FALSE)
     ELSE Out(s, "GrowNotAllowed", <<>>, FALSE)

Shrink(s, n) ==
  LET orig == GetNumberOfValues(s)
      c == IF s.ControlArrayValid
           THEN [s EXCEPT !.ControlArray = StorageShrink(s.ControlArray, n)]
           ELSE s
      e == IF c.ExecutionArrayValid
           THEN [c EXCEPT !.ExecutionArray = ManagerShrink(c.ExecutionArray, n)]
           ELSE c
  IN IF n < orig
     THEN IF s.UserPortalValid THEN Out(s, "ReadOnly", <<>>, FALSE)
          ELSE IF s.ControlArrayValid /\ ~StorageCanShrink(s.ControlArray, n)
          THEN Out(s, "precondition", <<>>, FALSE)
          ELSE IF c.ExecutionArrayValid /\ c.ExecutionArray = NULL
          THEN Out(c, "null", <<>>, FALSE)
          ELSE IF c.ExecutionArrayValid /\ ~ManagerCanShrink(c.ExecutionArray, n)
          THEN Out(c, "precondition", <<>>, FALSE)
          ELSE IF GetNumberOfValues(e) # n THEN Out(e, "assert", <<>>, FALSE)
          ELSE Out(e, "ok", <<>>, FALSE)
     ELSE IF n = orig
     THEN Out(s, "ok", <<>>, FALSE)
     ELSE Out(s, "GrowNotAllowed", <<>>, FALSE)

\* Variant: the user portal is not forgotten.
ReleaseResources_KeepUser(s) ==
  LET r == ReleaseResourcesExecution(s)
  IN IF r.fault # "none" THEN Out(r.s, r.fault, <<>>, FALSE)
     ELSE IF r.s.ControlArrayValid
     THEN Out([r.s EXCEPT
                 !.ControlArray = StorageReleaseResources(r.s.ControlArray),
                 !.ControlArrayValid = FALSE], "ok", <<>>, FALSE)
     ELSE Out(r.s, "ok", <<>>, FALSE)

ReleaseResources(s) ==
  LET r == ReleaseResourcesExecution(s)
      u == [r.s EXCEPT !.UserPortalValid = FALSE]
  IN IF r.fault # "none" THEN Out(r.s, r.fault, <<>>, FALSE)
     ELSE IF u.ControlArrayValid
     THEN Out([u EXCEPT !.ControlArray = StorageReleaseResources(u.ControlArray),
                        !.ControlArrayValid = FALSE], "ok", <<>>, FALSE)
     ELSE Out(u, "ok", <<>>, FALSE)

\* return this->Internals->ExecutionArray->GetPortal[Const]Execution(tag)
ExecutionPortal(s, copied) ==
  IF s.ExecutionArray = NULL THEN Out(s, "null", <<>>, copied)
  ELSE Out(s, "ok", s.ExecutionArray.data, copied)

\* Variant: the control array is invalidated once the device has the data,
\* as PrepareForInPlace does.
PrepareForInput_InvalidateControl(s, d) ==
  IF s.ExecutionArrayValid THEN ExecutionPortal(s, FALSE)
  ELSE IF s.UserPortalValid \/ s.ControlArrayValid
  THEN LET p == PrepareForDevice(s, d) IN
       IF p.fault # "none" THEN Out(p.s, p.fault, <<>>, FALSE)
       ELSE ExecutionPortal(
              [p.s EXCEPT !.ExecutionArray =
                            LoadDataForInput(p.s.ExecutionArray,
                                             IF p.s.UserPortalValid
                                             THEN p.s.UserPortal
                                             ELSE p.s.ControlArray),
                          !.ExecutionArrayValid = TRUE,
                          !.ControlArrayValid = FALSE], TRUE)
  ELSE Out(s, "NoData", <<>>, FALSE)

\* Variant: the data is loaded again although the execution array is valid.
PrepareForInput_AlwaysLoad(s, d) ==
  IF s.UserPortalValid \/ s.ControlArrayValid
  THEN LET p == PrepareForDevice(s, d) IN
       IF p.fault # "none" THEN Out(p.s, p.fault, <<>>, FALSE)
       ELSE ExecutionPortal(
              [p.s EXCEPT !.ExecutionArray =
                            LoadDataForInput(p.s.ExecutionArray,
                                             IF p.s.UserPortalValid
                                             THEN p.s.UserPortal
                                             ELSE p.s.ControlArray),
                          !.ExecutionArrayValid = TRUE], TRUE)
  ELSE IF s.ExecutionArrayValid THEN ExecutionPortal(s, FALSE)
  ELSE Out(s, "NoData", <<>>, FALSE)

PrepareForInput(s, d) ==
  IF s.ExecutionArrayValid THEN ExecutionPortal(s, FALSE)
  ELSE IF s.UserPortalValid
  THEN IF s.ControlArrayValid THEN Out(s, "assert", <<>>, FALSE)
       ELSE LET p == PrepareForDevice(s, d) IN
            Pulling(
              IF p.fault # "none" THEN Out(p.s, p.fault, <<>>, FALSE)
              ELSE ExecutionPortal(
                     [p.s EXCEPT !.ExecutionArray =
                                   LoadDataForInput(p.s.ExecutionArray,
                                                    p.s.UserPortal),
                                 !.ExecutionArrayValid = TRUE], TRUE),
              p.pull)
  ELSE IF s.ControlArrayValid
  THEN LET p == PrepareForDevice(s, d) IN
       Pulling(
         IF p.fault # "none" THEN Out(p.s, p.fault, <<>>, FALSE)
         ELSE ExecutionPortal(
                [p.s EXCEPT !.ExecutionArray =
                              LoadDataForInput(p.s.ExecutionArray,
                                               p.s.ControlArray),
                            !.ExecutionArrayValid = TRUE], TRUE),
         p.pull)
  ELSE Out(s, "NoData", <<>>, FALSE)

\* g is the content of the freshly allocated device array.
PrepareForOutput(s, n, d, g) ==
  LET c == [s EXCEPT !.UserPortalValid = FALSE, !.ControlArrayValid = FALSE]
      p == PrepareForDevice(c, d)
  IN Pulling(
       IF p.fault # "none" THEN Out(p.s, p.fault, <<>>, FALSE)
       ELSE ExecutionPortal(
              [p.s EXCEPT !.ExecutionArray =
                            AllocateArrayForOutput(p.s.ExecutionArray, g),
                          !.ExecutionArrayValid = TRUE], FALSE),
       p.pull)

\* Variant: the control array stays valid, as in PrepareForInput.
PrepareForInPlace_KeepControl(s, d) ==
  IF s.UserPortalValid THEN Out(s, "ReadOnly", <<>>, FALSE)
  ELSE IF s.ExecutionArrayValid THEN ExecutionPortal(s, FALSE)
  ELSE IF s.ControlArrayValid
  THEN LET p == PrepareForDevice(s, d) IN
       IF p.fault # "none" THEN Out(p.s, p.fault, <<>>, FALSE)
       ELSE ExecutionPortal(
              [p.s EXCEPT !.ExecutionArray =
                            LoadDataForInPlace(p.s.ExecutionArray,
                                               p.s.ControlArray),
                          !.ExecutionArrayValid = TRUE], TRUE)
  ELSE Out(s, "NoData", <<>>, FALSE)

\* Variant: with the execution array already valid there is "nothing to
\* do", the control array included.
PrepareForInPlace_KeepMirror(s, d) ==
  IF s.UserPortalValid THEN Out(s, "ReadOnly", <<>>, FALSE)
  ELSE IF s.ExecutionArrayValid THEN ExecutionPortal(s, FALSE)
  ELSE IF s.ControlArrayValid
  THEN LET p == PrepareForDevice(s, d) IN
       IF p.fault # "none" THEN Out(p.s, p.fault, <<>>, FALSE)
       ELSE ExecutionPortal(
              [p.s EXCEPT !.ExecutionArray =
                            LoadDataForInPlace(p.s.ExecutionArray,
                                               p.s.ControlArray),
                          !.ExecutionArrayValid = TRUE,
                          !.ControlArrayValid = FALSE], TRUE)
  ELSE Out(s, "NoData", <<>>, FALSE)

PrepareForInPlace(s, d) ==
  IF s.UserPortalValid THEN Out(s, "ReadOnly", <<>>, FALSE)
  ELSE IF s.ExecutionArrayValid
  THEN ExecutionPortal([s EXCEPT !.ControlArrayValid = FALSE], FALSE)
  ELSE IF s.ControlArrayValid
  THEN LET p == PrepareForDevice(s, d) IN
       Pulling(
         IF p.fault # "none" THEN Out(p.s, p.fault, <<>>, FALSE)
         ELSE ExecutionPortal(
                [p.s EXCEPT !.ExecutionArray =
                              LoadDataForInPlace(p.s.ExecutionArray,
                                                 p.s.ControlArray),
                            !.ExecutionArrayValid = TRUE,
                            !.ControlArrayValid = FALSE], TRUE),
         p.pull)
  ELSE Out(s, "NoData", <<>>, FALSE)

\* The caller stores v through the writable execution portal it was just
\* given by PrepareForOutput or PrepareForInPlace.
ExecutionPortalWrite(s, v) ==
  [s EXCEPT !.ExecutionArray = [s.ExecutionArray EXCEPT !.data = v]]

\* The caller stores v through the writable control portal it was just
\* given by GetPortalControl.
ControlPortalWrite(s, v) == [s EXCEPT !.ControlArray = v]

\* ------------------------------------------------------- shared ownership
\* The implicit copy constructor copies the shared_ptr member: one more
\* owner of the same block.
CopyConstructor(count) == count + 1

\* Variant: the execution array manager is held by a plain pointer and
\* outlives the block.
InternalStructDestructor_KeepManager(s) ==
  [s EXCEPT !.UserPortal = <<>>, !.UserPortalValid = FALSE,
            !.ControlArray = StorageReleaseResources(s.ControlArray),
            !.ControlArrayValid = FALSE]

\* ~InternalStruct(): the control array frees its memory and the scoped_ptr
\* deletes the execution array manager.
InternalStructDestructor(s) ==
  [s EXCEPT !.UserPortal = <<>>, !.UserPortalValid = FALSE,
            !.ControlArray = StorageReleaseResources(s.ControlArray),
            !.ControlArrayValid = FALSE,
            !.ExecutionArray = NULL, !.ExecutionArrayValid = FALSE]

\* The implicit destructor destroys the shared_ptr member: the owner count
\* drops by one and the last owner deletes the block.
HandleDestructor(s, count) ==
  IF count = 1
  THEN [s |-> InternalStructDestructor(s), count |-> 0, deleted |-> TRUE]
  ELSE [s |-> s, count |-> count - 1, deleted |-> FALSE]

\* ---------------------------------------------------------------- actions
\* last: the most recent call (operation, arguments, how it ended, portal
\* content, copy made) and the operation that preceded it. via names the
\* call that handed out the execution portal last written through
\* ("mirrored": a PrepareForInPlace called with both the control array and
\* the execution array valid).
NoCall ==
  [op |-> "Construct", dev |-> "NULL", n |-> 0, result |-> "ok",
   ret |-> <<>>, copied |-> FALSE, pull |-> "none", prevOp |-> "other",
   prevDev |-> "NULL", via |-> "none"]

\* The preceding operation is remembered only for the call sequences whose
\* second call depends on the first.
Tracked ==
  {<<"PrepareForInput", "PrepareForInput">>,
   <<"PrepareForInput", "GetPortalConstControl">>,
   <<"WriteControlPortal", "PrepareForInput">>,
   <<"WriteExecutionPortal", "GetPortalConstControl">>,
   <<"WriteExecutionPortal", "GetPortalControl">>}

\* The calls that are const member functions taking part in a read round trip.
ReadOps == {"PrepareForInput", "GetPortalConstControl"}

Alive == last.result \notin Crashes

Call(op, d, n, o) ==
  /\ Alive
  /\ useCount > 0
  /\ UNCHANGED <<useCount, blockDeleted>>
  /\ Internals' = o.s
  /\ \E r \in Outcomes(o.result) :
       last' = [op |-> op, dev |-> d, n |-> n, result |-> r,
                ret |-> o.ret, copied |-> o.copied, pull |-> o.pull,
                prevOp |-> IF <<last.op, op>> \in Tracked /\ last.result = "ok"
                           THEN last.op ELSE "other",
                prevDev |-> IF <<last.op, op>> \in Tracked /\ last.result = "ok"
                            THEN last.dev ELSE "NULL",
                via |-> IF op = "WriteExecutionPortal"
                        THEN IF last.via = "mirrored"
                             THEN "PrepareForInPlaceMirrored" ELSE last.op
                        ELSE IF /\ op = "PrepareForInPlace"
                                /\ Internals.ControlArrayValid
                                /\ Internals.ExecutionArrayValid
                        THEN "mirrored"
                        ELSE IF <<last.op, op>> \in Tracked THEN last.via
                        ELSE "none"]
  /\ everValid' = (everValid \/ AnyValid(o.s))
  /\ onlyReads' = (onlyReads /\ op \in ReadOps)
  /\ constructed' = IF onlyReads /\ op \in ReadOps THEN constructed
                    ELSE [constructed EXCEPT !.data = <<>>]

Init ==
  /\ \E k \in {"default", "user", "storage"} : \E a \in Arrays :
       /\ constructed = [kind |-> k, data |-> IF k = "default" THEN <<>> ELSE a]
       /\ Internals = IF k = "default" THEN DefaultConstructed
                      ELSE IF k = "user" THEN FromUserPortal(a)
                      ELSE FromStorage(a)
  /\ last = NoCall
  /\ everValid = AnyValid(Internals)
  /\ onlyReads = TRUE
  /\ useCount = 1
  /\ blockDeleted = FALSE

CallGetPortalControl ==
  Call("GetPortalControl", "NULL", 0, GetPortalControl(Internals))

CallGetPortalConstControl ==
  Call("GetPortalConstControl", "NULL", 0, GetPortalConstControl(Internals))

CallShrink ==
  \E n \in ShrinkArgs : Call("Shrink", "NULL", n, Shrink(Internals, n))

CallReleaseResourcesExecution ==
  LET r == ReleaseResourcesExecution(Internals) IN
  Call("ReleaseResourcesExecution", "NULL", 0,
       Out(r.s, IF r.fault = "none" THEN "ok" ELSE r.fault, <<>>, FALSE))

CallReleaseResources ==
  Call("ReleaseResources", "NULL", 0, ReleaseResources(Internals))

CallPrepareForInput ==
  \E d \in Devices :
    Call("PrepareForInput", d, 0, PrepareForInput(Internals, d))

CallPrepareForOutput ==
  \E d \in Devices : \E n \in 0..MaxLen : \E g \in ArraysOfLen(n) :
    Call("PrepareForOutput", d, n, PrepareForOutput(Internals, n, d, g))

CallPrepareForInPlace ==
  \E d \in Devices :
    Call("PrepareForInPlace", d, 0, PrepareForInPlace(Internals, d))

WriteExecutionPortal ==
  /\ last.op \in {"PrepareForOutput", "PrepareForInPlace"}
  /\ last.result = "ok"
  /\ \E v \in ArraysOfLen(Len(Internals.ExecutionArray.data)) :
       Call("WriteExecutionPortal", last.dev, 0,
            Out(ExecutionPortalWrite(Internals, v), "ok", v, FALSE))

WriteControlPortal ==
  /\ last.op = "GetPortalControl"
  /\ last.result = "ok"
  /\ \E v \in ArraysOfLen(Len(Internals.ControlArray)) :
       Call("WriteControlPortal", "NULL", 0,
            Out(ControlPortalWrite(Internals, v), "ok", v, FALSE))

Next ==
  \/ CallGetPortalControl
  \/ CallGetPortalConstControl
  \/ CallShrink
  \/ CallReleaseResourcesExecution
  \/ CallReleaseResources
  \/ CallPrepareForInput
  \/ CallPrepareForOutput
  \/ CallPrepareForInPlace
  \/ WriteExecutionPortal
  \/ WriteControlPortal

Spec == Init /\ [][Next]_vars

\* ArrayHandle(const ArrayHandle &): the copy's Internals pointer refers to
\* the same InternalStruct; nothing in the block is touched.
CopyHandle ==
  /\ Alive
  /\ useCount > 0
  /\ useCount < MaxHandles
  /\ useCount' = CopyConstructor(useCount)
  /\ UNCHANGED <<Internals, last, constructed, everValid, onlyReads,
                 blockDeleted>>

\* ~ArrayHandle() of one of the handles referring to the block.
DestroyHandle ==
  /\ Alive
  /\ useCount > 0
  /\ LET x == HandleDestructor(Internals, useCount) IN
       /\ Internals' = x.s
       /\ useCount' = x.count
       /\ blockDeleted' = x.deleted
  /\ UNCHANGED <<last, constructed, everValid, onlyReads>>

\* A call through any one of the handles: it acts on the block they all
\* refer to. Of the call only its name, its size argument and how it ended
\* are kept.
CallShared(op, n, o) ==
  /\ Alive
  /\ useCount > 0
  /\ Internals' = o.s
  /\ \E r \in Outcomes(o.result) :
       last' = [NoCall EXCEPT !.op = op, !.n = n, !.result = r]
  /\ everValid' = (everValid \/ AnyValid(o.s))
  /\ onlyReads' = (onlyReads /\ op \in ReadOps)
  /\ constructed' = [constructed EXCEPT !.data = <<>>]
  /\ UNCHANGED <<useCount, blockDeleted>>

SharedGetPortalControl ==
  CallShared("GetPortalControl", 0, GetPortalControl(Internals))

SharedGetPortalConstControl ==
  CallShared("GetPortalConstControl", 0, GetPortalConstControl(Internals))

SharedShrink ==
  \E n \in ShrinkArgs : CallShared("Shrink", n, Shrink(Internals, n))

SharedReleaseResourcesExecution ==
  LET r == ReleaseResourcesExecution(Internals) IN
  CallShared("ReleaseResourcesExecution", 0,
             Out(r.s, IF r.fault = "none" THEN "ok" ELSE r.fault, <<>>, FALSE))

SharedReleaseResources ==
  CallShared("ReleaseResources", 0, ReleaseResources(Internals))

SharedPrepareForInput ==
  \E d \in Devices :
    CallShared("PrepareForInput", 0, PrepareForInput(Internals, d))

SharedPrepareForOutput ==
  \E d \in Devices : \E n \in 0..MaxLen : \E g \in ArraysOfLen(n) :
    CallShared("PrepareForOutput", n, PrepareForOutput(Internals, n, d, g))

SharedPrepareForInPlace ==
  \E d \in Devices :
    CallShared("PrepareForInPlace", 0, PrepareForInPlace(Internals, d))

SharedWriteExecutionPortal ==
  /\ last.op \in {"PrepareForOutput", "PrepareForInPlace"}
  /\ last.result = "ok"
  /\ \E v \in ArraysOfLen(Len(Internals.ExecutionArray.data)) :
       CallShared("WriteExecutionPortal", 0,
                  Out(ExecutionPortalWrite(Internals, v), "ok", v, FALSE))

SharedWriteControlPortal ==
  /\ last.op = "GetPortalControl"
  /\ last.result = "ok"
  /\ \E v \in ArraysOfLen(Len(Internals.ControlArray)) :
       CallShared("WriteControlPortal", 0,
                  Out(ControlPortalWrite(Internals, v), "ok", v, FALSE))

NextShared ==
  \/ SharedGetPortalControl
  \/ SharedGetPortalConstControl
  \/ SharedShrink
  \/ SharedReleaseResourcesExecution
  \/ SharedReleaseResources
  \/ SharedPrepareForInput
  \/ SharedPrepareForOutput
  \/ SharedPrepareForInPlace
  \/ SharedWriteExecutionPortal
  \/ SharedWriteControlPortal
  \/ CopyHandle
  \/ DestroyHandle

\* The handle together with its copies.
SpecShared == Init /\ [][NextShared]_vars

TypeOK ==
  /\ Internals.UserPortal \in Arrays
  /\ Internals.ControlArray \in Arrays
  /\ Internals.ExecutionArray.data \in Arrays
  /\ Internals.ExecutionArray.dev \in Devices \cup {"NULL"}
  /\ useCount \in 0..MaxHandles
  /\ blockDeleted \in BOOLEAN

\* ----------------------------------------------------------------- claims
HostOps ==
  {"GetPortalControl", "GetPortalConstControl", "PrepareForInput",
   "PrepareForInPlace"}

\* C1: on a default-constructed handle on which no view was ever valid,
\* GetNumberOfValues is 0 and GetPortalControl, GetPortalConstControl,
\* PrepareForInput and PrepareForInPlace each end with the no-data error and
\* with no other fault.
C1_DefaultHandleNoData ==
  (constructed.kind = "default" /\ ~everValid) =>
    /\ GetNumberOfValues(Internals) = 0
    /\ (last.op \in HostOps => last.result = "NoData")

\* C2: right after PrepareForOutput(n, D) returns, UserPortalValid and
\* ControlArrayValid are false, ExecutionArrayValid is true and
\* GetNumberOfValues() is n, whatever the prior state was.
C2_OutputPostState ==
  (last.op = "PrepareForOutput") =>
    /\ last.result = "ok"
    /\ ~Internals.UserPortalValid
    /\ ~Internals.ControlArrayValid
    /\ Internals.ExecutionArrayValid
    /\ GetNumberOfValues(Internals) = last.n

\* C3: after PrepareForOutput(n, D) and the caller writing v through the
\* returned portal, the next GetPortalConstControl returns exactly v and
\* GetNumberOfValues() is n (the length of v).
C3_OutputThenRead ==
  [][(/\ last.op = "WriteExecutionPortal"
      /\ last.via = "PrepareForOutput"
      /\ last'.op = "GetPortalConstControl")
     => (/\ last'.result = "ok"
         /\ last'.ret = last.ret
         /\ GetNumberOfValues(Internals') = Len(last.ret))]_vars

\* C4: after any successful PrepareForInput(D) the execution manager is bound
\* to D, and the content a GetPortalConstControl returns is what it was
\* before the call.
C4_InputBindsDevice ==
  [][(last'.op = "PrepareForInput" /\ last'.result = "ok")
     => (/\ Internals'.ExecutionArray.dev = last'.dev
         /\ GetPortalConstControl(Internals').ret
              = GetPortalConstControl(Internals).ret)]_vars

\* C5: for a handle constructed from host data c of length L, as long as only
\* PrepareForInput and GetPortalConstControl have been called,
\* GetNumberOfValues() is L and every GetPortalConstControl returns c.
C5_RoundTrip ==
  (constructed.kind \in {"user", "storage"} /\ onlyReads) =>
    /\ GetNumberOfValues(Internals) = Len(constructed.data)
    /\ (last.op = "GetPortalConstControl" =>
          last.result = "ok" /\ last.ret = constructed.data)

C5_Witness ==
  /\ constructed.kind \in {"user", "storage"}
  /\ onlyReads
  /\ last.op = "GetPortalConstControl"
  /\ last.prevOp = "PrepareForInput"
  /\ last.ret = constructed.data
  /\ Len(constructed.data) >= 2
  /\ constructed.data[1] # constructed.data[2]

\* C6: a PrepareForInput(D) that directly follows a successful
\* PrepareForInput(D) for the same device makes no copy and leaves the flags,
\* the device binding and the device content unchanged.
C6_InputIdempotent ==
  [][(/\ last.op = "PrepareForInput"
      /\ last.result = "ok"
      /\ last'.op = "PrepareForInput"
      /\ last'.dev = last.dev)
     => (/\ last'.result = "ok"
         /\ ~last'.copied
         /\ Internals' = Internals)]_vars

C6_Witness ==
  /\ last.op = "PrepareForInput"
  /\ last.prevOp = "PrepareForInput"
  /\ last.prevDev = last.dev
  /\ last.result = "ok"
  /\ ~last.copied
  /\ Internals.ExecutionArrayValid
  /\ Len(Internals.ExecutionArray.data) > 0

\* C7: with logical length L, Shrink(n) ends with the grow error when n > L,
\* changes nothing when n = L, and for 0 <= n < L without a valid user
\* portal leaves GetNumberOfValues() = n and every view that was valid
\* (control array, execution array) valid with length n.
C7_Shrink ==
  [][(last'.op = "Shrink")
     => LET L == GetNumberOfValues(Internals)
            n == last'.n
        IN /\ (n > L => last'.result = "GrowNotAllowed")
           /\ (n = L => last'.result = "ok" /\ Internals' = Internals)
           /\ (0 <= n /\ n < L /\ ~Internals.UserPortalValid =>
                 /\ last'.result = "ok"
                 /\ GetNumberOfValues(Internals') = n
                 /\ (Internals.ControlArrayValid =>
                       /\ Internals'.ControlArrayValid
                       /\ Len(Internals'.ControlArray) = n)
                 /\ (Internals.ExecutionArrayValid =>
                       /\ Internals'.ExecutionArrayValid
                       /\ Len(Internals'.ExecutionArray.data) = n))]_vars

\* C8: a successful GetPortalControl leaves ExecutionArrayValid false, and the
\* PrepareForInput that follows the caller's write of x through the portal
\* copies host to device so that the device content is x.
C8_MutableHostInvalidatesDevice ==
  [][/\ (last'.op = "GetPortalControl" /\ last'.result = "ok"
           => ~Internals'.ExecutionArrayValid)
     /\ (last.op = "WriteControlPortal" /\ last'.op = "PrepareForInput"
           => /\ last'.result = "ok"
              /\ last'.copied
              /\ Internals'.ExecutionArray.data = last.ret
              /\ last'.ret = last.ret)]_vars

C8_Witness ==
  /\ last.op = "PrepareForInput"
  /\ last.prevOp = "WriteControlPortal"
  /\ last.result = "ok"
  /\ last.copied
  /\ Len(last.ret) > 0
  /\ Internals.ExecutionArray.data = Internals.ControlArray

\* C9: PrepareForInPlace ends with the read-only error and changes nothing
\* whenever UserPortalValid holds; with a valid control array or a valid
\* execution array (and no user portal) it succeeds with ExecutionArrayValid
\* true, ControlArrayValid false and the control array's storage untouched.
C9_InPlace ==
  [][(last'.op = "PrepareForInPlace")
     => /\ (Internals.UserPortalValid =>
              last'.result = "ReadOnly" /\ Internals' = Internals)
        /\ (/\ ~Internals.UserPortalValid
            /\ (Internals.ControlArrayValid \/ Internals.ExecutionArrayValid)
            => /\ last'.result = "ok"
               /\ Internals'.ExecutionArrayValid
               /\ ~Internals'.ControlArrayValid
               /\ Internals'.ControlArray = Internals.ControlArray)]_vars

C9_Witness ==
  /\ last.op = "PrepareForInPlace"
  /\ last.result = "ok"
  /\ last.copied
  /\ Internals.ExecutionArrayValid
  /\ ~Internals.ControlArrayValid
  /\ Len(Internals.ControlArray) > 0
  /\ Internals.ExecutionArray.data = Internals.ControlArray

\* C10: whenever GetPortalControl, GetPortalConstControl, Shrink,
\* PrepareForInput or PrepareForInPlace ends with the no-data, read-only or
\* grow error, the whole state block (flags, binding, every view) is as it
\* was before the call.
C10_ErrorAtomicity ==
  [][(last'.op \in HostOps \cup {"Shrink"} /\ last'.result \in Errors)
     => Internals' = Internals]_vars

C10_Witness ==
  /\ last.op = "Shrink"
  /\ last.result = "ReadOnly"
  /\ Internals.UserPortalValid
  /\ Internals.ExecutionArrayValid
  /\ Len(Internals.ExecutionArray.data) > last.n

SyncingOps ==
  {"GetPortalControl", "GetPortalConstControl", "PrepareForInput",
   "PrepareForOutput", "PrepareForInPlace"}

\* C11: UserPortalValid and ControlArrayValid are never both true, and no call
\* that runs SyncControlArray or PrepareForInput's user-portal branch ends
\* in a failed assertion.
C11_NeverBothHostViews ==
  /\ ~(Internals.UserPortalValid /\ Internals.ControlArrayValid)
  /\ (last.op \in SyncingOps => last.result # "AssertFail")

C11_Witness ==
  /\ Internals.UserPortalValid
  /\ ~Internals.ControlArrayValid
  /\ last.op = "PrepareForInput"
  /\ last.result = "ok"
  /\ last.copied
  /\ Internals.ExecutionArray.data = Internals.UserPortal
  /\ Len(Internals.UserPortal) > 0

\* C12: in every state of a running program all valid views report the same
\* length: whenever ExecutionArrayValid holds together with ControlArrayValid
\* or UserPortalValid, the manager's length equals the control array's or
\* the user portal's.
C12_LengthAgreement ==
  (Alive /\ Internals.ExecutionArrayValid) =>
    /\ (Internals.ControlArrayValid =>
          Len(Internals.ExecutionArray.data) = Len(Internals.ControlArray))
    /\ (Internals.UserPortalValid =>
          Len(Internals.ExecutionArray.data) = Len(Internals.UserPortal))

\* C13: ReleaseResources never fails and ends with all three flags false and
\* GetNumberOfValues() = 0; ReleaseResourcesExecution never fails, leaves
\* ExecutionArrayValid false, never touches the host flags or contents, and
\* changes nothing when ExecutionArrayValid was already false.
C13_Release ==
  [][/\ (last'.op = "ReleaseResources"
           => /\ last'.result = "ok"
              /\ ~AnyValid(Internals')
              /\ GetNumberOfValues(Internals') = 0)
     /\ (last'.op = "ReleaseResourcesExecution"
           => /\ last'.result = "ok"
              /\ ~Internals'.ExecutionArrayValid
              /\ Internals'.UserPortalValid = Internals.UserPortalValid
              /\ Internals'.ControlArrayValid = Internals.ControlArrayValid
              /\ Internals'.UserPortal = Internals.UserPortal
              /\ Internals'.ControlArray = Internals.ControlArray
              /\ (~Internals.ExecutionArrayValid => Internals' = Internals))]_vars

C13_Witness ==
  /\ last.op = "ReleaseResources"
  /\ last.result = "ok"
  /\ constructed.kind = "user"
  /\ Len(Internals.UserPortal) > 0
  /\ Internals.ExecutionArray # NULL
  /\ ~AnyValid(Internals)

\* C14 (as stated, for the device-only states it names): whenever neither
\* UserPortalValid nor ControlArrayValid holds and only ExecutionArrayValid
\* does, GetPortalControl ends with the no-data error.
C14_DeviceOnlyNoData ==
  [][(/\ last'.op = "GetPortalControl"
      /\ ~Internals.UserPortalValid
      /\ ~Internals.ControlArrayValid
      /\ Internals.ExecutionArrayValid)
     => last'.result = "NoData"]_vars

\* C14 (amended): when only ExecutionArrayValid holds, GetPortalControl
\* succeeds: it copies the device data into the control array, marks it
\* valid, releases the execution array and returns a portal over that
\* content; and it ends with the no-data error in no state with a valid view.
C14_DeviceOnlySyncs ==
  [][(last'.op = "GetPortalControl")
     => /\ (/\ ~Internals.UserPortalValid
             /\ ~Internals.ControlArrayValid
             /\ Internals.ExecutionArrayValid
             => /\ last'.result = "ok"
                /\ last'.pull = "valid"
                /\ last'.ret = Internals.ExecutionArray.data
                /\ Internals'.ControlArray = Internals.ExecutionArray.data
                /\ Internals'.ControlArrayValid
                /\ ~Internals'.ExecutionArrayValid)
        /\ (AnyValid(Internals) => last'.result # "NoData")]_vars

C14_Witness ==
  /\ last.op = "GetPortalControl"
  /\ last.prevOp = "WriteExecutionPortal"
  /\ last.result = "ok"
  /\ last.pull = "valid"
  /\ Len(last.ret) > 0
  /\ Internals.ControlArrayValid
  /\ ~Internals.ExecutionArrayValid

\* C15: while UserPortalValid holds, GetPortalControl ends with the read-only
\* error, Shrink(n) with n below the length ends with the read-only error,
\* both without any change to the state block (a mirrored execution array
\* is neither released nor truncated), and Shrink(n) with n equal to the
\* length succeeds and changes nothing.
C15_UserPortalReadOnly ==
  [][Internals.UserPortalValid
     => /\ (last'.op = "GetPortalControl"
              => last'.result = "ReadOnly" /\ Internals' = Internals)
        /\ (last'.op = "Shrink" /\ last'.n < Len(Internals.UserPortal)
              => last'.result = "ReadOnly" /\ Internals' = Internals)
        /\ (last'.op = "Shrink" /\ last'.n = Len(Internals.UserPortal)
              => last'.result = "ok" /\ Internals' = Internals)]_vars

C15_Witness ==
  /\ last.op = "GetPortalControl"
  /\ last.result = "ReadOnly"
  /\ Internals.UserPortalValid
  /\ Internals.ExecutionArrayValid
  /\ Internals.ExecutionArray.data = Internals.UserPortal
  /\ Len(Internals.UserPortal) > 0

\* C17: whenever SyncControlArray copies device data into the control array
\* and marks it valid, during any public operation, the execution array
\* was valid at that moment.
C17_PullOnlyWhenDeviceValid == last.pull # "invalid"

\* C18: GetPortalConstControl never changes ExecutionArrayValid or the
\* execution array manager; with a valid host-side view it changes nothing;
\* with only ExecutionArrayValid it copies the device data into the control
\* array, marks it valid, keeps ExecutionArrayValid and returns a portal whose
\* content equals the device content.
C18_ConstAccessFrame ==
  [][(last'.op = "GetPortalConstControl")
     => /\ Internals'.ExecutionArrayValid = Internals.ExecutionArrayValid
        /\ Internals'.ExecutionArray = Internals.ExecutionArray
        /\ (Internals.UserPortalValid \/ Internals.ControlArrayValid
              => Internals' = Internals)
        /\ (/\ ~Internals.UserPortalValid
             /\ ~Internals.ControlArrayValid
             /\ Internals.ExecutionArrayValid
             => /\ last'.result = "ok"
                /\ last'.ret = Internals.ExecutionArray.data
                /\ Internals'.ControlArray = Internals.ExecutionArray.data
                /\ Internals'.ControlArrayValid
                /\ Internals'.ExecutionArrayValid)]_vars

C18_Witness ==
  /\ last.op = "GetPortalConstControl"
  /\ last.prevOp = "WriteExecutionPortal"
  /\ last.result = "ok"
  /\ last.pull = "valid"
  /\ Internals.ControlArrayValid
  /\ Internals.ExecutionArrayValid
  /\ last.ret = Internals.ExecutionArray.data
  /\ Len(last.ret) > 0

\* C19: PrepareForOutput transfers no data in either direction: it neither
\* loads host data to the device nor retrieves device data to the host,
\* whatever device the existing manager is bound to.
C19_OutputNoTransfer ==
  last.op = "PrepareForOutput" => (~last.copied /\ last.pull = "none")

\* C20: the postcondition assertion at the end of Shrink
\* (GetNumberOfValues() == numberOfValues) never fails when reached, for
\* every reachable state and every argument, negative ones and the
\* all-invalid state of length 0 included.
C20_ShrinkPostcondition == last.op = "Shrink" => last.result # "AssertFail"

C21_InputKeepsHostSide ==
  [][(last'.op = "PrepareForInput" /\ last'.result = "ok")
     => /\ Internals'.UserPortalValid = Internals.UserPortalValid
        /\ Internals'.ControlArrayValid = Internals.ControlArrayValid
        /\ Internals'.UserPortal = Internals.UserPortal
        /\ Internals'.ControlArray = Internals.ControlArray
        /\ Internals'.ExecutionArrayValid
        /\ GetNumberOfValues(Internals') = GetNumberOfValues(Internals)
        /\ GetPortalConstControl(Internals').result
             = GetPortalConstControl(Internals).result
        /\ GetPortalConstControl(Internals').ret
             = GetPortalConstControl(Internals).ret]_vars

C21_Witness ==
  /\ last.op = "PrepareForInput"
  /\ last.result = "ok"
  /\ last.copied
  /\ Internals.UserPortalValid
  /\ Internals.ExecutionArrayValid
  /\ Internals.ExecutionArray.dev = last.dev
  /\ Internals.ExecutionArray.data = Internals.UserPortal
  /\ Len(Internals.UserPortal) = MaxLen

\* C22: the handle holds one execution array manager, bound to one device.
\* Whenever PrepareForInput, PrepareForOutput or PrepareForInPlace calls
\* PrepareForDevice(D): with the manager already bound to D nothing
\* changes; with the manager bound to another device and data valid on the
\* device only, that data is in the control array, marked valid, before the
\* old manager goes; the two assertions before the new manager is created
\* never fail; and after a successful call the manager is bound to D.
C22_BindingProtocol ==
  [][(last'.op \in {"PrepareForInput", "PrepareForOutput",
                     "PrepareForInPlace"})
     => LET d == last'.dev
            pre == IF last'.op = "PrepareForOutput"
                   THEN [Internals EXCEPT !.UserPortalValid = FALSE,
                                          !.ControlArrayValid = FALSE]
                   ELSE Internals
            called ==
              \/ last'.op = "PrepareForOutput"
              \/ /\ last'.op = "PrepareForInput"
                 /\ ~Internals.ExecutionArrayValid
                 /\ Internals.UserPortalValid \/ Internals.ControlArrayValid
              \/ /\ last'.op = "PrepareForInPlace"
                 /\ ~Internals.UserPortalValid
                 /\ ~Internals.ExecutionArrayValid
                 /\ Internals.ControlArrayValid
            p == PrepareForDevice(pre, d)
        IN /\ last'.result # "AssertFail"
           /\ called =>
                /\ p.fault = "none"
                /\ p.s.ExecutionArray = NewManager(d)
                     \/ p.s.ExecutionArray = pre.ExecutionArray
                /\ (pre.ExecutionArray # NULL /\ pre.ExecutionArray.dev = d
                      => p.s = pre /\ p.pull = "none")
                /\ (/\ pre.ExecutionArray # NULL
                     /\ pre.ExecutionArray.dev # d
                     /\ pre.ExecutionArrayValid
                     /\ ~pre.UserPortalValid
                     /\ ~pre.ControlArrayValid
                     => /\ p.s.ControlArrayValid
                        /\ p.s.ControlArray = pre.ExecutionArray.data
                        /\ Internals'.ControlArray = pre.ExecutionArray.data)
                /\ (last'.result = "ok"
                      => Internals'.ExecutionArray.dev = d)]_vars

C22_Witness ==
  /\ last.op = "PrepareForOutput"
  /\ last.result = "ok"
  /\ last.pull = "valid"
  /\ Internals.ExecutionArray.dev = last.dev
  /\ Len(Internals.ControlArray) > 0

\* C23: in every reachable state ExecutionArrayValid implies that the
\* execution array manager exists, so Shrink, ReleaseResourcesExecution,
\* ReleaseResources and the portal-returning ends of PrepareForInput and
\* PrepareForInPlace never go through a null manager pointer (and
\* GetNumberOfValues reads the length of an existing manager).
C23_ValidImpliesManager ==
  /\ (Internals.ExecutionArrayValid => Internals.ExecutionArray # NULL)
  /\ (last.op \in {"Shrink", "ReleaseResourcesExecution", "ReleaseResources",
                    "PrepareForInput", "PrepareForInPlace"}
        => last.result \notin {"BoostAssertAbort", "Segfault"})

C23_Witness ==
  /\ last.op = "Shrink"
  /\ last.result = "ok"
  /\ last.n = 1
  /\ Internals.ExecutionArrayValid
  /\ ~Internals.ControlArrayValid
  /\ ~Internals.UserPortalValid
  /\ Internals.ExecutionArray # NULL
  /\ Len(Internals.ExecutionArray.data) = 1

\* C24: after a successful PrepareForInPlace(D) and the caller writing v
\* through the returned portal, the next host read, GetPortalConstControl
\* or GetPortalControl, succeeds and returns v, not the host copy from before
\* the in-place call; this includes the case in which the control array and
\* the execution array were both valid, so that PrepareForInPlace copied
\* nothing.
C24_InPlaceThenRead ==
  [][(/\ last.op = "WriteExecutionPortal"
      /\ last.via \in {"PrepareForInPlace", "PrepareForInPlaceMirrored"}
      /\ last'.op \in {"GetPortalConstControl", "GetPortalControl"})
     => (/\ last'.result = "ok"
         /\ last'.ret = last.ret
         /\ Internals'.ControlArrayValid
         /\ Internals'.ControlArray = last.ret)]_vars

C24_Witness ==
  /\ last.op = "GetPortalConstControl"
  /\ last.prevOp = "WriteExecutionPortal"
  /\ last.via = "PrepareForInPlaceMirrored"
  /\ last.result = "ok"
  /\ last.pull = "valid"
  /\ Len(last.ret) = MaxLen
  /\ last.ret[1] # last.ret[MaxLen]
  /\ last.ret = Internals.ExecutionArray.data

====
